---------------------------- MODULE Spec2Model ----------------------------
(***************************************************************************)
(* Model of the symbol manager of symoro.py (class Symoro and the module   *)
(* level helpers it uses): the substitution dictionary (sydi, revdi,       *)
(* order_list), the replacement drivers (replace, mat_replace,             *)
(* trig_replace), the trigonometric rewriters (try_opt, C2S2_simp,         *)
(* CS12_simp) and the dependency sifter (sift_syms).                       *)
(*                                                                         *)
(* Expressions.  The program works on sympy expressions.  The model keeps  *)
(* the expressions the rewriters produce and consume: sums of monomials    *)
(* with integer coefficients, in sympy's canonical form (like terms are    *)
(* combined, a term with coefficient 0 disappears, a base with exponent 0  *)
(* disappears).  An expression is a set of terms [c, m]: c a non-zero      *)
(* integer, m a monomial; a monomial is a function from bases to positive  *)
(* exponents; no two terms of an expression have the same monomial.  Two   *)
(* expressions are equal as values exactly when sympy's == is true.        *)
(*   A base is a sequence of one-character strings, the spelling of a      *)
(* symbol (S12 is <<"S","1","2">>), or <<"sin">> or <<"cos">> followed by  *)
(* the spelling of the angle symbol it is applied to.                      *)
(*   A dictionary value is a record [tup, alts]: an expression e is        *)
(* [tup |-> FALSE, alts |-> <<e>>], a Python tuple of expressions          *)
(* (a branching entry) is [tup |-> TRUE, alts |-> <<e1, ..., en>>].        *)
(***************************************************************************)
EXTENDS Integers, Sequences, FiniteSets, TLC

VARIABLES sydi, revdi, order_list, pre, call, ret, file_out, output, pre_output, twin

vars == <<sydi, revdi, order_list, pre, call, ret, file_out, output, pre_output, twin>>

-----------------------------------------------------------------------------
(* Expression abstraction (sympy): construction and arithmetic.            *)

EmptyMono == [b \in {} |-> 0]

ZERO == {}

Num(n) == IF n = 0 THEN {} ELSE {[c |-> n, m |-> EmptyMono]}

ONE == Num(1)

Mono1(b, p) == [x \in {b} |-> p]

Var(b) == {[c |-> 1, m |-> Mono1(b, 1)]}

Pw(b, p) == {[c |-> 1, m |-> Mono1(b, p)]}

MExp(m, b) == IF b \in DOMAIN m THEN m[b] ELSE 0

MMul(m1, m2) == [b \in DOMAIN m1 \cup DOMAIN m2 |-> MExp(m1, b) + MExp(m2, b)]

Monos(e) == {t.m : t \in e}

Coef(e, m) == IF \E t \in e : t.m = m THEN (CHOOSE t \in e : t.m = m).c ELSE 0

Plus(e1, e2) ==
  {[c |-> Coef(e1, m) + Coef(e2, m), m |-> m] :
      m \in {n \in Monos(e1) \cup Monos(e2) : Coef(e1, n) + Coef(e2, n) # 0}}

Neg(e) == {[c |-> -t.c, m |-> t.m] : t \in e}

Minus(e1, e2) == Plus(e1, Neg(e2))

\* The product of two expressions that are single terms or 0 (the only
\* products the modelled code forms: A*coef, B*coef, C*coef, S1*C2).
Times(e1, e2) == {[c |-> t1.c * t2.c, m |-> MMul(t1.m, t2.m)] : t1 \in e1, t2 \in e2}

\* The sum of the expressions F[x], x in DOMAIN F.
RECURSIVE SumOf(_)
SumOf(F) ==
  IF DOMAIN F = {} THEN ZERO
  ELSE LET x == CHOOSE y \in DOMAIN F : TRUE
       IN  Plus(F[x], SumOf([y \in DOMAIN F \ {x} |-> F[y]]))

Val(e) == [tup |-> FALSE, alts |-> <<e>>]

Tup(es) == [tup |-> TRUE, alts |-> es]


-----------------------------------------------------------------------------
(* Expression abstraction (sympy): queries.                                *)

IsFn(b) == Len(b) > 0 /\ b[1] \in {"sin", "cos"}

Bases(e) == UNION {DOMAIN t.m : t \in e}

\* expr.atoms(Symbol): the symbols of an expression, those under sin/cos too.
Atoms(e) == {IF IsFn(b) THEN Tail(b) ELSE b : b \in Bases(e)}

\* The symbols of a dictionary value (of every alternative of a tuple).
ValAtoms(v) == UNION {Atoms(v.alts[i]) : i \in DOMAIN v.alts}

IsAdd(e) == Cardinality(e) >= 2

IsNumber(e) == \A t \in e : t.m = EmptyMono

\* Basic.is_Atom: a number or a bare symbol.
IsAtom(e) ==
  \/ IsNumber(e)
  \/ \E b \in Bases(e) : ~IsFn(b) /\ e = Var(b)

\* as_coeff_Mul()[0]: the numeric factor of a product (1 for a sum).
AsCoeff(e) ==
  IF e = {} THEN 0
  ELSE IF Cardinality(e) = 1 THEN (CHOOSE t \in e : TRUE).c
  ELSE 1

\* Add.make_args: the terms of a sum, the expression itself otherwise.
MakeArgs(e) == e

Abs(n) == IF n < 0 THEN -n ELSE n

RECURSIVE SumNat(_)
SumNat(F) ==
  IF DOMAIN F = {} THEN 0
  ELSE LET x == CHOOSE y \in DOMAIN F : TRUE
       IN  F[x] + SumNat([y \in DOMAIN F \ {x} |-> F[y]])

\* The operations of one factor b**p: POW when p # 1, the function
\* application itself for sin/cos.
FactorOps(b, p) == (IF p # 1 THEN 1 ELSE 0) + (IF IsFn(b) THEN 1 ELSE 0)

\* The operations of the term t taken without its sign: MUL once per
\* argument of the product after the first, plus those of the factors.
TermOps(t) ==
  LET nargs == Cardinality(DOMAIN t.m) + (IF Abs(t.c) # 1 THEN 1 ELSE 0)
  IN  (IF nargs > 1 THEN nargs - 1 ELSE 0)
        + SumNat([b \in DOMAIN t.m |-> FactorOps(b, t.m[b])])

\* Expr.count_ops(): a sum counts ADD or SUB between its terms and NEG when
\* every term is negative; a lone negative term counts NEG.
CountOps(e) ==
  IF e = {} THEN 0
  ELSE (Cardinality(e) - 1)
         + (IF \A t \in e : t.c < 0 THEN 1 ELSE 0)
         + SumNat([t \in e |-> TermOps(t)])

\* sym_less with an equal measure accepted.
sym_less_le(A, B) == CountOps(A) <= CountOps(B)

sym_less(A, B) == CountOps(A) < CountOps(B)

\* The spelling of -a for a base a; no symbol is spelled that way, a
\* negated compound base would be.
NegBase(a) == <<"-">> \o a

\* c / k for the numeric factor k of a pattern (k is 1 or -1 in every call
\* the program makes).
DivCoef(c, k) == IF k < 0 THEN (-c) \div (-k) ELSE c \div k

\* get_max_coef_mul(sym, x) for a term sym = {t} and a pattern x = {xt}:
\* pow_c is the powers dictionary of sym / k with the entry of -1 reset, so
\* a numeric factor that is exactly -1 is dropped; every base of x is
\* divided out, a negated base with odd exponent flipping the sign.
get_max_coef_term(t, xt) ==
  LET k == xt.c
      pow_x == xt.m
      cc == DivCoef(t.c, k)
      pow_c == t.m
      direct(a) == a \in DOMAIN pow_c /\ pow_c[a] >= pow_x[a]
      negated(a) == ~direct(a) /\ NegBase(a) \in DOMAIN pow_c
                       /\ pow_c[NegBase(a)] >= pow_x[a]
      flips == Cardinality({a \in DOMAIN pow_x : negated(a) /\ pow_x[a] % 2 = 1})
      used(b) == IF b \in DOMAIN pow_x /\ direct(b) THEN pow_x[b]
                 ELSE IF \E a \in DOMAIN pow_x : negated(a) /\ b = NegBase(a)
                      THEN pow_x[CHOOSE a \in DOMAIN pow_x : negated(a) /\ b = NegBase(a)]
                      ELSE 0
      left == {b \in DOMAIN pow_c : pow_c[b] - used(b) > 0}
      num == (IF cc = -1 THEN 1 ELSE cc) * (IF flips % 2 = 1 THEN -1 ELSE 1)
  IN  IF \A a \in DOMAIN pow_x : direct(a) \/ negated(a)
      THEN {[c |-> num, m |-> [b \in left |-> pow_c[b] - used(b)]]}
      ELSE ZERO

get_max_coef_mul(sym, x) ==
  IF sym = {} \/ x = {} THEN ZERO
  ELSE get_max_coef_term(CHOOSE t \in sym : TRUE, CHOOSE xt \in x : TRUE)

\* get_max_coef_list(sym, x): one coefficient per additive term of sym; the
\* list is kept as a function of the term it comes from.
get_max_coef_list(sym, x) == [t \in MakeArgs(sym) |-> get_max_coef_mul({t}, x)]

Range(F) == {F[x] : x \in DOMAIN F}


-----------------------------------------------------------------------------
(* Names of angles: strings, kept as sequences of one-character strings.   *)

Digits == {"0", "1", "2", "3", "4", "5", "6", "7", "8", "9"}

\* The character class [AGm0-9] of find_trig_names.
TrigClass == {"A", "G", "m"} \cup Digits

\* The order of characters (their codes) that list.sort() uses on names.
CharCode(ch) ==
  CASE ch = "0" -> 48 [] ch = "1" -> 49 [] ch = "2" -> 50 [] ch = "3" -> 51
    [] ch = "4" -> 52 [] ch = "5" -> 53 [] ch = "6" -> 54 [] ch = "7" -> 55
    [] ch = "8" -> 56 [] ch = "9" -> 57 [] ch = "A" -> 65 [] ch = "G" -> 71
    [] ch = "m" -> 109 [] OTHER -> 127

RECURSIVE StrLess(_, _)
StrLess(a, b) ==
  IF a = <<>> THEN b # <<>>
  ELSE IF b = <<>> THEN FALSE
  ELSE IF a[1] = b[1] THEN StrLess(Tail(a), Tail(b))
  ELSE CharCode(a[1]) < CharCode(b[1])

\* sorted(names) as a sequence.
RECURSIVE SortNames(_)
SortNames(S) ==
  IF S = {} THEN <<>>
  ELSE LET lo == CHOOSE x \in S : \A y \in S \ {x} : StrLess(x, y)
       IN  <<lo>> \o SortNames(S \ {lo})

\* The longest run of characters of TrigClass in str from position i on.
RECURSIVE ClassRun(_, _)
ClassRun(str, i) ==
  IF i > Len(str) \/ str[i] \notin TrigClass THEN <<>>
  ELSE <<str[i]>> \o ClassRun(str, i + 1)

\* find_trig_names(sym, pref, 1): every match of pref[AGm0-9]* in the text
\* of sym, without the prefix.  The text of a sum of monomials holds the
\* spellings of its bases separated by operators and exponents, none of
\* which is in the class.
find_trig_names(sym, pref) ==
  UNION {{ClassRun(b, i + 1) : i \in {j \in 1..Len(b) : b[j] = pref}} : b \in Bases(sym)}

get_trig_couple_names(sym) == <<find_trig_names(sym, "C"), find_trig_names(sym, "S")>>

\* get_angles: the arguments that occur both under sin and under cos.
get_angles(expr) ==
  {Tail(b) : b \in {x \in Bases(expr) : IsFn(x) /\ x[1] = "sin"}}
    \cap {Tail(b) : b \in {x \in Bases(expr) : IsFn(x) /\ x[1] = "cos"}}

HasFn(sym, f) == \E b \in Bases(sym) : IsFn(b) /\ b[1] = f

trigonometric_info(sym) ==
  IF ~HasFn(sym, "sin") /\ ~HasFn(sym, "cos")
  THEN LET cs == get_trig_couple_names(sym)
       IN  [names |-> cs[1] \cap cs[2], short_form |-> TRUE]
  ELSE [names |-> get_angles(sym), short_form |-> FALSE]

\* CS_syms(name) for a name that is not empty: <<C, S>>, S negated for a
\* name that starts with m.
CS_syms(name) ==
  IF name[1] = "m"
  THEN <<Var(<<"C">> \o Tail(name)), Neg(Var(<<"S">> \o Tail(name)))>>
  ELSE <<Var(<<"C">> \o name), Var(<<"S">> \o name)>>

\* str.find(ch): the first position of ch (from 0), -1 when there is none.
Find(str, ch) ==
  IF \E i \in 1..Len(str) : str[i] = ch
  THEN (CHOOSE i \in 1..Len(str) : str[i] = ch /\ \A j \in 1..(i - 1) : str[j] # ch) - 1
  ELSE -1

Min(a, b) == IF a < b THEN a ELSE b

\* str[:j] + str[j+1:] with Python's slices (j counted from 0; a slice past
\* the end is empty).
CutAt(str, j) ==
  SubSeq(str, 1, Min(j, Len(str)))
    \o (IF j + 2 <= Len(str) THEN SubSeq(str, j + 2, Len(str)) ELSE <<>>)

\* The loop of reduce_str from position j (from 0) of the string orig that
\* enumerate() was given; s1 and s2 are the strings as rebound so far, and
\* s1 is cut at the position j of orig.
RECURSIVE reduce_loop(_, _, _, _)
reduce_loop(orig, j, s1, s2) ==
  IF j >= Len(orig) THEN <<s1, s2>>
  ELSE LET i == Find(s2, orig[j + 1])
       IN  IF i # -1
           THEN reduce_loop(orig, j + 1, CutAt(s1, j), CutAt(s2, i))
           ELSE reduce_loop(orig, j + 1, s1, s2)

reduce_str(s1, s2) == reduce_loop(s1, 0, s1, s2)

\* get_pos_neg(s): s.split('m')[0] and s.split('m')[1], or s and ''.
get_pos_neg(s) ==
  LET i == Find(s, "m")
      rest == SubSeq(s, i + 2, Len(s))
      k == Find(rest, "m")
  IN  IF i # -1
      THEN <<SubSeq(s, 1, i), IF k # -1 THEN SubSeq(rest, 1, k) ELSE rest>>
      ELSE <<s, <<>>>>

ang_sum(np1, np2, nm1, nm2) ==
  LET r1 == reduce_str(np2, nm1)
      r2 == reduce_str(np1, nm2)
  IN  IF Len(r1[2]) + Len(r2[2]) = 0
      THEN r2[1] \o r1[1]
      ELSE r2[1] \o r1[1] \o <<"m">> \o r1[2] \o r2[2]


-----------------------------------------------------------------------------
(* The dictionary as a value: [sydi, revdi, order_list].  sydi maps a key  *)
(* (an expression) to its value, revdi a value to a key, order_list is the *)
(* sequence of keys in insertion order.  An operation that can raise       *)
(* returns exc = TRUE with the dictionary as it was when the exception     *)
(* left it.                                                                *)

EmptyDict == [sydi |-> <<>>, revdi |-> <<>>, order_list |-> <<>>]

\* add_to_dict with the pair stored as it is given, whatever the sign of
\* new_sym.
add_to_dict_no_sign(d, new_sym, old_sym) ==
  IF new_sym \notin DOMAIN d.sydi
  THEN [d |-> [sydi |-> (new_sym :> old_sym) @@ d.sydi,
               revdi |-> (old_sym :> new_sym) @@ d.revdi,
               order_list |-> Append(d.order_list, new_sym)],
        exc |-> FALSE]
  ELSE [d |-> d, exc |-> FALSE]

\* add_to_dict with no test for the key: an entry that exists is given the
\* new value and the key is appended once more.
add_to_dict_overwrite(d, new_sym, old_sym) ==
  LET neg == AsCoeff(new_sym) = -1
      ns == IF neg THEN Neg(new_sym) ELSE new_sym
      ov == IF neg THEN Val(Neg(old_sym.alts[1])) ELSE old_sym
  IN  IF neg /\ old_sym.tup
      THEN [d |-> d, exc |-> TRUE]
      ELSE [d |-> [sydi |-> (ns :> ov) @@ d.sydi,
                   revdi |-> (ov :> ns) @@ d.revdi,
                   order_list |-> Append(d.order_list, ns)],
            exc |-> FALSE]

\* add_to_dict(new_sym, old_sym); old_sym is a dictionary value.  Negating
\* a tuple raises TypeError.
add_to_dict(d, new_sym, old_sym) ==
  LET neg == AsCoeff(new_sym) = -1
      ns == IF neg THEN Neg(new_sym) ELSE new_sym
      ov == IF neg THEN Val(Neg(old_sym.alts[1])) ELSE old_sym
  IN  IF neg /\ old_sym.tup
      THEN [d |-> d, exc |-> TRUE]
      ELSE IF ns \notin DOMAIN d.sydi
      THEN [d |-> [sydi |-> (ns :> ov) @@ d.sydi,
                   revdi |-> (ov :> ns) @@ d.revdi,
                   order_list |-> Append(d.order_list, ns)],
            exc |-> FALSE]
      ELSE [d |-> d, exc |-> FALSE]

\* coefs of try_opt: the terms of old_sym whose coefficient of B is also in
\* the list of the coefficients of C (a term that holds no B has
\* coefficient 0, and counts when some term holds no C).
try_coefs(B, C, old_sym) ==
  LET Bc == get_max_coef_list(old_sym, B)
      Cc == get_max_coef_list(old_sym, C)
  IN  {t \in DOMAIN Bc : Bc[t] \in Range(Cc)}

\* coefs_n of try_opt: the same with the negated coefficient of B.
try_coefs_n(B, C, old_sym) ==
  LET Bc == get_max_coef_list(old_sym, B)
      Cc == get_max_coef_list(old_sym, C)
  IN  {t \in DOMAIN Bc : Neg(Bc[t]) \in Range(Cc)}

\* The choice of try_opt with the difference taken on equal counts too.
try_swap_ge(Am, B, C, old_sym) ==
  /\ Am # <<>>
  /\ Cardinality(try_coefs_n(B, C, old_sym)) >= Cardinality(try_coefs(B, C, old_sym))

\* The choice of try_opt between B + C and B - C: the difference when Am is
\* given and len(coefs_n) > len(coefs).
try_swap(Am, B, C, old_sym) ==
  /\ Am # <<>>
  /\ Cardinality(try_coefs_n(B, C, old_sym)) > Cardinality(try_coefs(B, C, old_sym))

\* Res of try_opt: old_sym with A*coef - B*coef - C*coef added for the
\* coefficient of B in every term of cf.
try_res(A, B, C, cf, old_sym) ==
  LET Bc == get_max_coef_list(old_sym, B)
  IN  Plus(old_sym,
           SumOf([t \in cf |->
              Minus(Minus(Times(A, Bc[t]), Times(B, Bc[t])), Times(C, Bc[t]))]))

\* try_opt that registers A whenever the rewrite is accepted, a number or
\* not.
try_opt_register(d, A, Am, B, C, old_sym) ==
  LET swap == try_swap(Am, B, C, old_sym)
      Cs == IF swap THEN Neg(C) ELSE C
      As == IF swap THEN Am[1] ELSE A
      cf == IF swap THEN try_coefs_n(B, C, old_sym) ELSE try_coefs(B, C, old_sym)
  IN  CHOOSE out \in
        {IF sym_less(Res, old_sym)
         THEN [d |-> add_to_dict(d, As, Val(Plus(B, Cs))).d, res |-> Res]
         ELSE [d |-> d, res |-> old_sym] :
           Res \in {try_res(As, B, Cs, cf, old_sym)}} :
        TRUE

\* try_opt(A, Am, B, C, old_sym); Am is <<>> for None and <<e>> for e.
\* Returns the dictionary and the expression returned.  Res is bound to
\* its value (the element of a one-element set), so it is computed once.
try_opt(d, A, Am, B, C, old_sym) ==
  LET swap == try_swap(Am, B, C, old_sym)
      Cs == IF swap THEN Neg(C) ELSE C
      As == IF swap THEN Am[1] ELSE A
      cf == IF swap THEN try_coefs_n(B, C, old_sym) ELSE try_coefs(B, C, old_sym)
  IN  CHOOSE out \in
        {IF sym_less(Res, old_sym)
         THEN [d |-> IF ~IsNumber(As) THEN add_to_dict(d, As, Val(Plus(B, Cs))).d ELSE d,
               res |-> Res]
         ELSE [d |-> d, res |-> old_sym] :
           Res \in {try_res(As, B, Cs, cf, old_sym)}} :
        TRUE

\* cos(name), sin(name) of the long form.
CosSin(name) == <<Var(<<"cos">> \o name), Var(<<"sin">> \o name)>>

\* C2S2_simp(sym).  last is the name the loop over the set names visits
\* last (the order of a Python set is not fixed); it is read only when
\* names is not empty.  With no name C and S are never bound and the
\* return statement raises; CS_syms raises on an empty name.
C2S2_simp(d, sym, last) ==
  LET info == trigonometric_info(sym)
      CS == IF info.short_form THEN CS_syms(last) ELSE CosSin(last)
      r == try_opt(d, ONE, <<>>, Times(CS[2], CS[2]), Times(CS[1], CS[1]), sym)
  IN  IF ~IsAdd(sym) THEN [d |-> d, res |-> sym, exc |-> FALSE]
      ELSE IF info.names = {} \/ (info.short_form /\ <<>> \in info.names)
      THEN [d |-> d, res |-> sym, exc |-> TRUE]
      ELSE [d |-> r.d, res |-> r.res, exc |-> FALSE]

\* combinations(names, 2) of a sequence, as a sequence of pairs.
RECURSIVE Combinations2(_)
Combinations2(names) ==
  IF Len(names) < 2 THEN <<>>
  ELSE [i \in 1..(Len(names) - 1) |-> <<names[1], names[i + 1]>>]
         \o Combinations2(Tail(names))

\* One pass of the loop of CS12_simp for the pair <<n1, n2>>: r1 is what
\* the first try_opt returns, r2 what the second returns on the result of
\* the first.
CS12_pair(d, sym, short_form, n1, n2) ==
  LET pn1 == get_pos_neg(n1)
      pn2 == get_pos_neg(n2)
      n12 == IF short_form THEN ang_sum(pn1[1], pn2[1], pn1[2], pn2[2])
             ELSE n1 \o <<"+">> \o n2
      nm12 == IF short_form THEN ang_sum(pn1[1], pn2[2], pn1[2], pn2[1])
              ELSE n1 \o <<"-">> \o n2
      raises == short_form /\ <<>> \in {n1, n2, n12, nm12}
      CS1 == IF short_form THEN CS_syms(n1) ELSE CosSin(n1)
      CS2 == IF short_form THEN CS_syms(n2) ELSE CosSin(n2)
      CS12 == IF short_form THEN CS_syms(n12) ELSE CosSin(n12)
      CS1m2 == IF short_form THEN CS_syms(nm12) ELSE CosSin(nm12)
  IN  IF raises THEN [d |-> d, res |-> sym, exc |-> TRUE]
      ELSE CHOOSE out \in
             {[d |-> r2.d, res |-> r2.res, exc |-> FALSE] :
                r2 \in {try_opt(r1.d, CS12[1], <<CS1m2[1]>>,
                                Times(CS1[1], CS2[1]), Neg(Times(CS1[2], CS2[2])), r1.res) :
                          r1 \in {try_opt(d, CS12[2], <<CS1m2[2]>>,
                                          Times(CS1[2], CS2[1]), Times(CS1[1], CS2[2]), sym)}}} :
             TRUE

RECURSIVE CS12_loop(_, _, _, _)
CS12_loop(d, sym, short_form, pairs) ==
  IF pairs = <<>> THEN [d |-> d, res |-> sym, exc |-> FALSE]
  ELSE CHOOSE out \in
         {IF r.exc THEN r ELSE CS12_loop(r.d, r.res, short_form, Tail(pairs)) :
            r \in {CS12_pair(d, sym, short_form, pairs[1][1], pairs[1][2])}} :
         TRUE

\* CS12_simp(sym).
CS12_simp(d, sym) ==
  LET info == trigonometric_info(sym)
  IN  IF ~IsAdd(sym) THEN [d |-> d, res |-> sym, exc |-> FALSE]
      ELSE CS12_loop(d, sym, info.short_form, Combinations2(SortNames(info.names)))


\* replace(old_sym, name, index, forced): the dictionary and the value
\* returned.  With forced the search of revdi is skipped.
replace(d, old_sym, name, index, forced) ==
  LET inv_sym == Neg(old_sym)
      is_simple == IsAtom(old_sym) \/ IsAtom(inv_sym)
      new_sym == Var(name \o index)
  IN  IF is_simple /\ ~forced THEN [d |-> d, res |-> old_sym]
      ELSE IF ~forced /\ Val(old_sym) \in DOMAIN d.revdi
      THEN [d |-> d, res |-> d.revdi[Val(old_sym)]]
      ELSE IF ~forced /\ Val(inv_sym) \in DOMAIN d.revdi
      THEN [d |-> d, res |-> Neg(d.revdi[Val(inv_sym)])]
      ELSE [d |-> add_to_dict(d, new_sym, Val(old_sym)).d, res |-> new_sym]

\* str(n) for the row and column numbers of a matrix.
DigitStr(n) ==
  CASE n = 1 -> <<"1">> [] n = 2 -> <<"2">> [] n = 3 -> <<"3">>
    [] n = 4 -> <<"4">> [] n = 5 -> <<"5">> [] n = 6 -> <<"6">>
    [] n = 7 -> <<"7">> [] n = 8 -> <<"8">> [] n = 9 -> <<"9">>

\* A matrix is a sequence of rows; Cell and SetCell count from 0 as the
\* program does.
Cell(M, i1, i2) == M[i1 + 1][i2 + 1]

SetCell(M, i1, i2, v) == [M EXCEPT ![i1 + 1][i2 + 1] = v]

Rows(M) == Len(M)

Cols(M) == Len(M[1])

\* The loops of mat_replace from cell k on, the cells of the rows below
\* Rows(M) - skip counted row by row.  M[i2, i1] outside the matrix raises
\* IndexError.
RECURSIVE mat_replace_loop(_, _, _, _, _, _, _, _)
mat_replace_loop(d, M, name, index, forced, skip, symmet, k) ==
  LET i1 == k \div Cols(M)
      i2 == k % Cols(M)
      name_index == IF Cols(M) > 1 THEN name \o DigitStr(i1 + 1) \o DigitStr(i2 + 1)
                    ELSE name \o DigitStr(i1 + 1)
      r == replace(d, Cell(M, i1, i2), name_index, index, forced)
  IN  IF k >= (Rows(M) - skip) * Cols(M) THEN [d |-> d, M |-> M, exc |-> FALSE]
      ELSE IF symmet /\ i2 < i1
      THEN IF i1 >= Cols(M) THEN [d |-> d, M |-> M, exc |-> TRUE]
           ELSE mat_replace_loop(d, SetCell(M, i1, i2, Cell(M, i2, i1)),
                                 name, index, forced, skip, symmet, k + 1)
      ELSE mat_replace_loop(r.d, SetCell(M, i1, i2, r.res),
                            name, index, forced, skip, symmet, k + 1)

\* mat_replace that takes every matrix as not symmetric.
mat_replace_no_mirror(d, M, name, index, forced, skip, symmet) ==
  mat_replace_loop(d, M, name, index, forced, skip, FALSE, 0)

\* mat_replace(M, name, index, forced, skip, symmet).
mat_replace(d, M, name, index, forced, skip, symmet) ==
  mat_replace_loop(d, M, name, index, forced, skip, symmet, 0)

\* n**p for n = 1 or n = -1.
SignPow(n, p) == IF p % 2 = 0 THEN 1 ELSE n

\* e.subs({b: r}) for a base b and r a symbol or its negation.
Subs1(e, b, r) ==
  LET rt == CHOOSE t \in r : TRUE
      rb == CHOOSE x \in DOMAIN rt.m : TRUE
      sub(t) ==
        IF b \in DOMAIN t.m
        THEN {[c |-> t.c * SignPow(rt.c, t.m[b]),
               m |-> MMul([x \in DOMAIN t.m \ {b} |-> t.m[x]], Mono1(rb, t.m[b]))]}
        ELSE {t}
  IN  SumOf([t \in e |-> sub(t)])

\* trig_replace(M, angle, name) for an angle that is a symbol or a number.
trig_replace(d, M, angle, name) ==
  LET CS == CS_syms(name)
      q == CHOOSE b \in Bases(angle) : TRUE
      d1 == add_to_dict(d, CS[1], Val(Var(<<"cos">> \o q))).d
      d2 == add_to_dict(d1, CS[2], Val(Var(<<"sin">> \o q))).d
  IN  IF IsNumber(angle) THEN [d |-> d, M |-> M]
      ELSE [d |-> d2,
            M |-> [i \in DOMAIN M |-> [j \in DOMAIN M[i] |->
                     Subs1(Subs1(M[i][j], <<"cos">> \o q, CS[1]), <<"sin">> \o q, CS[2])]]]

\* The loop of sift_syms over reversed(order_list), from position i down:
\* rq is rq_syms as updated so far (a set of symbols), kept the new
\* order_list.  A key is in rq_syms when it is one of its symbols; only a
\* value that is an expression (not a tuple) gives its symbols to rq_syms.
RECURSIVE sift_loop(_, _, _, _)
sift_loop(d, i, rq, kept) ==
  IF i = 0 THEN [rq |-> rq, kept |-> kept]
  ELSE LET s == d.order_list[i]
           s_val == d.sydi[s]
       IN  IF \E b \in rq : s = Var(b)
           THEN sift_loop(d, i - 1,
                          IF ~s_val.tup THEN rq \cup ValAtoms(s_val) ELSE rq,
                          <<s>> \o kept)
           ELSE sift_loop(d, i - 1, rq, kept)

\* sift_syms(rq_syms, wr_syms): rq_vals as a set (the list is built from a
\* Python set, in no fixed order) and the kept keys in order.
sift_syms(d, rq_syms, wr_syms) ==
  LET r == sift_loop(d, Len(d.order_list), rq_syms, <<>>)
  IN  [rq_vals |-> {b \in r.rq : ~(Var(b) \in DOMAIN d.sydi \/ b \in wr_syms)},
       order_list |-> r.kept]


\* extract_syms(syms) for a list of expressions: the symbols of its items.
extract_syms(syms) == UNION {Atoms(syms[i]) : i \in DOMAIN syms}

\* convert_syms(syms) for a list: the text '[s1, s2, ...]', kept as the
\* list of what is printed between the brackets.
convert_syms(syms) == [open |-> "[", items |-> syms, close |-> "]"]

\* A statement of a generated body: its kind k, the number ind of
\* indentations of four spaces before it, the symbol s it assigns and the
\* value v it is given.
Stmt(k, ind, sym, v) == [k |-> k, ind |-> ind, s |-> sym, v |-> v]

\* The statement gen_fbody makes for s at the indentation folded: s=1. for
\* a symbol that is no key, a for statement for a tuple, an assignment
\* otherwise.
gen_item(d, sym, folded) ==
  IF sym \notin DOMAIN d.sydi THEN Stmt("default", folded, sym, Val(ONE))
  ELSE IF d.sydi[sym].tup THEN Stmt("for", folded, sym, d.sydi[sym])
  ELSE Stmt("assign", folded, sym, d.sydi[sym])

\* folded with no indentation added after a for statement.
gen_folded_flat(d, sym, folded) == folded

\* folded after the statement for s: one more after a for statement.
gen_folded(d, sym, folded) ==
  IF sym \in DOMAIN d.sydi /\ d.sydi[sym].tup THEN folded + 1 ELSE folded

\* The loop of gen_fbody over order_list from position i on.
RECURSIVE gen_loop(_, _, _, _)
gen_loop(d, order, i, folded) ==
  IF i > Len(order) THEN [body |-> <<>>, folded |-> folded, multival |-> FALSE]
  ELSE CHOOSE res \in
         {[body |-> <<gen_item(d, order[i], folded)>> \o r.body,
           folded |-> r.folded,
           multival |-> r.multival \/ (order[i] \in DOMAIN d.sydi /\ d.sydi[order[i]].tup)] :
            r \in {gen_loop(d, order, i + 1, gen_folded(d, order[i], folded))}} :
         TRUE

\* gen_fbody(name, to_return, wr_syms), from the list order that sift_syms
\* has returned for the symbols of to_return and wr_syms.
gen_fbody(d, name, to_return, order) ==
  CHOOSE res \in
    {IF r.multival
     THEN <<Stmt("init", 1, name, Val(ZERO))>> \o r.body
            \o <<Stmt("append", r.folded, name, convert_syms(to_return)),
                 Stmt("return", 1, name, Val(ZERO))>>
     ELSE r.body
            \o <<Stmt("result", 1, name, convert_syms(to_return)),
                 Stmt("return", 1, name, Val(ZERO))>> :
       r \in {gen_loop(d, order, 1, 1)}} :
    TRUE

\* unfold(expr): sydi.keys() is a list and expr.atoms() a set, and
\* list & set raises TypeError before the loop is entered.
unfold(d, expr) == [exc |-> TRUE, res |-> expr]


-----------------------------------------------------------------------------
(* The state machine.  sydi, revdi and order_list are the fields of one    *)
(* Symoro instance.  The instance is used by one caller, one call at a     *)
(* time: call records the call that has just returned (the method and its  *)
(* arguments), ret what it returned (exc = TRUE when it raised), pre the   *)
(* dictionary as it was when the call was made.  The caller takes the      *)
(* result (Continue) before it makes the next call.                        *)
(*   file_out is the output descriptor of the instance ("None" for None,   *)
(* "disp" for the screen, "stream" for a file), output the lines sent to   *)
(* the screen or to the file so far, pre_output what output was when the   *)
(* call was made.  twin is a second instance that is given the same calls *)
(* (its dictionary, what its last call returned, its descriptor and its    *)
(* lines), or NoTwin when there is none.                                   *)

\* write_equation(A, B): the line str(A) + ' = ' + str(B), kept as the pair.
write_equation(A, B) == <<A, B>>

\* write_line that sends nothing to a file.
write_line_disp_only(fo, o, line) ==
  IF fo = "disp" THEN Append(o, line) ELSE o

\* write_line(line) with file_out = fo: o is what the screen or the file has
\* received, None discards the line.
write_line(fo, o, line) ==
  IF fo = "disp" THEN Append(o, line)
  ELSE IF fo # "None" THEN Append(o, line)
  ELSE o

\* The equations add_to_dict writes while the dictionary goes from d0 to d1:
\* one write_equation with every order_list.append, in that order.
RECURSIVE write_equations(_, _, _, _)
write_equations(fo, o, d0, d1) ==
  IF Len(d1.order_list) <= Len(d0.order_list) THEN o
  ELSE LET k == d1.order_list[Len(d0.order_list) + 1]
           d == [d0 EXCEPT !.order_list = Append(@, k)]
       IN  write_equations(fo, write_line(fo, o, write_equation(k, d1.sydi[k])), d, d1)

Sinks == {"None", "disp", "stream"}

NoTwin == [op |-> "none"]

D == [sydi |-> sydi, revdi |-> revdi, order_list |-> order_list]

\* The dictionary holds at most MaxEntries entries.
MaxEntries == 3

NoCall == [op |-> "none"]

Becomes(d) ==
  /\ Len(d.order_list) <= MaxEntries
  /\ sydi' = d.sydi
  /\ revdi' = d.revdi
  /\ order_list' = d.order_list
  /\ pre' = D
  /\ output' = write_equations(file_out, output, D, d)
  /\ pre_output' = output
  /\ UNCHANGED file_out
  /\ UNCHANGED twin

\* Symbols and expressions the calls are made with.
x == Var(<<"x">>)
y == Var(<<"y">>)
A1 == Var(<<"A", "1">>)
B1 == Var(<<"B", "1">>)
q == Var(<<"q">>)
S1 == Var(<<"S", "1">>)
C1 == Var(<<"C", "1">>)
S2 == Var(<<"S", "2">>)
C2 == Var(<<"C", "2">>)
S3 == Var(<<"S", "3">>)
C3 == Var(<<"C", "3">>)
S12 == Var(<<"S", "1", "2">>)
C12 == Var(<<"C", "1", "2">>)
S1m2 == Var(<<"S", "1", "m", "2">>)
C1m2 == Var(<<"C", "1", "m", "2">>)

EXY == Plus(x, y)
EA == Plus(A1, x)
EB == Plus(B1, y)

ExprPool == {EXY, Neg(EXY), x, EB}

NamePool == {<<"A">>, <<"B">>}

IndexPool == {<<"1">>}

NewSymPool == {Neg(A1), B1}

ValPool == {Val(EXY), Val(EB), Tup(<<x, y>>)}

MatPool == { <<<<EXY, EB>>, <<EB, x>>>>,
             <<<<EXY, x>>, <<EA, Neg(EXY)>>>>,
             <<<<EXY>>, <<x>>>> }

TrigMatPool == { <<<<Plus(Var(<<"cos", "q">>), C1), Times(Var(<<"sin", "q">>), x)>>>> }

AnglePool == {q, Num(2)}

TrigNamePool == {<<"1">>, <<"m", "1">>}

\* The patterns of a try_opt call: A, Am, B, C.
PatS12 == [A |-> S12, Am |-> <<S1m2>>, B |-> Times(S1, C2), C |-> Times(C1, S2)]
PatC12 == [A |-> C12, Am |-> <<C1m2>>, B |-> Times(C1, C2), C |-> Neg(Times(S1, S2))]
PatC2S2 == [A |-> ONE, Am |-> <<>>, B |-> Times(S1, S1), C |-> Times(C1, C1)]

ESum12 == Plus(Times(S1, C2), Times(C1, S2))

RqPool == {{<<"A", "1">>}, {<<"A", "1">>, <<"B", "1">>}, {<<"M", "1", "2">>, <<"x">>}}

WrPool == {{}, {<<"x">>, <<"y">>}, {<<"A", "1">>}}

Init ==
  /\ sydi = <<>>
  /\ revdi = <<>>
  /\ order_list = <<>>
  /\ pre = EmptyDict
  /\ call = NoCall
  /\ ret = [exc |-> FALSE, val |-> ZERO]
  /\ file_out = "disp"
  /\ output = <<>>
  /\ pre_output = <<>>
  /\ twin = NoTwin

AddToDict ==
  /\ call = NoCall
  /\ \E new_sym \in NewSymPool, old_sym \in ValPool :
    LET r == add_to_dict(D, new_sym, old_sym)
    IN  /\ Becomes(r.d)
        /\ call' = [op |-> "add_to_dict", new_sym |-> new_sym, old_sym |-> old_sym]
        /\ ret' = [exc |-> r.exc, val |-> ZERO]

Replace ==
  /\ call = NoCall
  /\ \E old_sym \in ExprPool, name \in NamePool, index \in IndexPool, forced \in BOOLEAN :
    LET r == replace(D, old_sym, name, index, forced)
    IN  /\ Becomes(r.d)
        /\ call' = [op |-> "replace", old_sym |-> old_sym, name |-> name,
                    index |-> index, forced |-> forced]
        /\ ret' = [exc |-> FALSE, val |-> r.res]

MatReplace ==
  /\ call = NoCall
  /\ \E M \in MatPool, forced \in BOOLEAN, skip \in {0, 1}, symmet \in BOOLEAN :
    LET r == mat_replace(D, M, <<"M">>, <<>>, forced, skip, symmet)
    IN  /\ Becomes(r.d)
        /\ call' = [op |-> "mat_replace", M |-> M, name |-> <<"M">>, index |-> <<>>,
                    forced |-> forced, skip |-> skip, symmet |-> symmet]
        /\ ret' = [exc |-> r.exc, val |-> r.M]

TrigReplace ==
  /\ call = NoCall
  /\ \E M \in TrigMatPool, angle \in AnglePool, name \in TrigNamePool :
    LET r == trig_replace(D, M, angle, name)
    IN  /\ Becomes(r.d)
        /\ call' = [op |-> "trig_replace", M |-> M, angle |-> angle, name |-> name]
        /\ ret' = [exc |-> FALSE, val |-> r.M]

\* try_opt called with a pattern of pats on an expression of syms.  again
\* says that the expression is what the call before, the same, returned.
TryOptOn(pats, syms) ==
  \E pat \in pats, old_sym \in syms :
    \E r \in {try_opt(D, pat.A, pat.Am, pat.B, pat.C, old_sym)} :
        /\ Becomes(r.d)
        /\ call' = [op |-> "try_opt", pat |-> pat, old_sym |-> old_sym,
                    again |-> (call.op = "try_opt" /\ call.pat = pat /\ ret.val = old_sym)]
        /\ ret' = [exc |-> FALSE, val |-> r.res]

TryOpt == call = NoCall /\ TryOptOn({PatS12}, {ESum12, EXY})

\* The lists rq_vals in every order of the set S.
RECURSIVE Orders(_)
Orders(S) ==
  IF S = {} THEN {<<>>}
  ELSE UNION {{<<b>> \o o : o \in Orders(S \ {b})} : b \in S}

SiftSyms ==
  /\ call = NoCall
  /\ \E rq_syms \in RqPool, wr_syms \in WrPool :
    LET r == sift_syms(D, rq_syms, wr_syms)
    IN  \E rq_vals \in Orders(r.rq_vals) :
          /\ Becomes(D)
          /\ call' = [op |-> "sift_syms", rq_syms |-> rq_syms, wr_syms |-> wr_syms]
          /\ ret' = [exc |-> FALSE,
                     val |-> [i \in 1..Len(rq_vals) |-> Var(rq_vals[i])] \o r.order_list]

\* The lists to_return and the sets wr_syms gen_fbody is called with.
RetPool == {<<B1>>, <<Plus(A1, B1)>>}

GenWrPool == {{}, {<<"x">>, <<"y">>}}

\* gen_fbody called with to_return of rets and wr_syms of wrs; order is the
\* list sift_syms gives it.
GenFbodyOn(rets, wrs) ==
  \E to_return \in rets, wr_syms \in wrs :
    \E r \in {sift_syms(D, extract_syms(to_return), wr_syms)} :
      \E rq_vals \in Orders(r.rq_vals) :
        \E order \in {[i \in 1..Len(rq_vals) |-> Var(rq_vals[i])] \o r.order_list} :
          /\ Becomes(D)
          /\ call' = [op |-> "gen_fbody", name |-> <<"f">>, to_return |-> to_return,
                      wr_syms |-> wr_syms, order |-> order]
          /\ ret' = [exc |-> FALSE, val |-> gen_fbody(D, <<"f">>, to_return, order)]

GenFbody == call = NoCall /\ GenFbodyOn(RetPool, GenWrPool)

UnfoldPool == {B1, EXY}

Unfold ==
  /\ call = NoCall
  /\ \E expr \in UnfoldPool :
       \E r \in {unfold(D, expr)} :
         /\ Becomes(D)
         /\ call' = [op |-> "unfold", expr |-> expr]
         /\ ret' = [exc |-> r.exc, val |-> r.res]

Continue ==
  /\ call # NoCall
  /\ call' = NoCall
  /\ ret' = [exc |-> FALSE, val |-> ZERO]
  /\ pre' = D
  /\ pre_output' = output
  /\ twin' = IF twin = NoTwin THEN twin
             ELSE [twin EXCEPT !.ret = [exc |-> FALSE, val |-> ZERO]]
  /\ UNCHANGED <<sydi, revdi, order_list, file_out, output>>

Next ==
  \/ Continue
  \/ AddToDict
  \/ Replace
  \/ MatReplace
  \/ TrigReplace
  \/ TryOpt
  \/ SiftSyms
  \/ GenFbody
  \/ Unfold

Spec == Init /\ [][Next]_vars

-----------------------------------------------------------------------------
(* The code generator on its own: entries, branching ones among them, are  *)
(* put in the dictionary with add_to_dict and gen_fbody is called.         *)

GenSymPool == {A1, B1}

GenValPool == {Tup(<<x, y>>), Tup(<<x, y, EXY>>), Val(EB), Val(EXY)}

GenAddToDict ==
  /\ call = NoCall
  /\ \E new_sym \in GenSymPool, old_sym \in GenValPool :
       \E r \in {add_to_dict(D, new_sym, old_sym)} :
         /\ Becomes(r.d)
         /\ call' = [op |-> "add_to_dict", new_sym |-> new_sym, old_sym |-> old_sym]
         /\ ret' = [exc |-> r.exc, val |-> ZERO]

GenRetPool == {<<A1>>, <<B1>>, <<Plus(A1, B1)>>, <<EXY>>}

GenFbodyGen == call = NoCall /\ GenFbodyOn(GenRetPool, WrPool)

NextGen ==
  \/ GenAddToDict
  \/ GenFbodyGen
  \/ Continue

SpecGen == Init /\ [][NextGen]_vars

-----------------------------------------------------------------------------
(* The rewriters on their own: from the empty dictionary, every call is    *)
(* try_opt, C2S2_simp or CS12_simp, on an expression of SimpSyms or, right *)
(* after a call of the same rewriter, on what that call returned.          *)

T3(e1, e2, e3) == Times(Times(e1, e2), e3)

\* 2*S1*C2 - 2*C1*S2
EDiff12 == Minus(Times(Num(2), Times(S1, C2)), Times(Num(2), Times(C1, S2)))

\* 2*x*S1*C2 + 2*x*C1*S2 + 2*y*S1*C2 - 2*y*C1*S2
ETie == Plus(Plus(T3(Num(2), x, Times(S1, C2)), T3(Num(2), x, Times(C1, S2))),
             Minus(T3(Num(2), y, Times(S1, C2)), T3(Num(2), y, Times(C1, S2))))

\* S1**2 + C1**2
EPyth == Plus(Times(S1, S1), Times(C1, C1))

\* S1**2 + C1**2 + S2**2 + C2**2
EPyth2 == Plus(EPyth, Plus(Times(S2, S2), Times(C2, C2)))

\* S1*C2*C3 + C1*S2*C3 + C1*C2*S3 - S1*S2*S3
ETriple == Plus(Plus(T3(S1, C2, C3), T3(C1, S2, C3)),
                Minus(T3(C1, C2, S3), T3(S1, S2, S3)))

\* The common coefficients k of k*S1*C2 + k*C1*S2.
KPool == {ONE, x, Num(2), Neg(ONE)}

\* sin(x)**2 + cos(x)**2
EPythLong == Plus(Times(CosSin(<<"x">>)[2], CosSin(<<"x">>)[2]),
                  Times(CosSin(<<"x">>)[1], CosSin(<<"x">>)[1]))

SimpSyms == {ESum12, EDiff12, ETie, EPyth, EPyth2, ETriple, EXY, EPythLong}
              \cup {Times(k, ESum12) : k \in KPool}

SimpPats == {PatS12, PatC12, PatC2S2}

\* The expressions the rewriter op is called with: those of SimpSyms, or
\* what the call before returned when that call was of op too.
SimpInputs(op) ==
  IF call = NoCall THEN SimpSyms
  ELSE IF call.op = op /\ ~ret.exc THEN {ret.val}
  ELSE {}

SimpTryOpt ==
  \/ call = NoCall /\ TryOptOn(SimpPats, SimpSyms)
  \/ call.op = "try_opt" /\ TryOptOn({call.pat}, {ret.val})

\* The names the loop of C2S2_simp can end on.
LastNames(sym) ==
  IF trigonometric_info(sym).names = {} THEN {<<>>} ELSE trigonometric_info(sym).names

SimpC2S2 ==
  \E sym \in SimpInputs("C2S2_simp") :
    \E last \in LastNames(sym) :
      \E r \in {C2S2_simp(D, sym, last)} :
          /\ Becomes(r.d)
          /\ call' = [op |-> "C2S2_simp", sym |-> sym,
                      again |-> (call.op = "C2S2_simp" /\ ret.val = sym)]
          /\ ret' = [exc |-> r.exc, val |-> r.res]

SimpCS12 ==
  \E sym \in SimpInputs("CS12_simp") :
    \E r \in {CS12_simp(D, sym)} :
        /\ Becomes(r.d)
        /\ call' = [op |-> "CS12_simp", sym |-> sym,
                    again |-> (call.op = "CS12_simp" /\ ret.val = sym)]
        /\ ret' = [exc |-> r.exc, val |-> r.res]

NextSimp ==
  \/ SimpTryOpt
  \/ SimpC2S2
  \/ SimpCS12
  \/ Continue

SpecSimp == Init /\ [][NextSimp]_vars

-----------------------------------------------------------------------------
(* Properties of the dictionary operations.                                *)

InList(l, e) == \E i \in 1..Len(l) : l[i] = e

\* The keys of the dictionary that the symbols of the value of k name.
Deps(d, k) == {j \in DOMAIN d.sydi : \E b \in ValAtoms(d.sydi[k]) : j = Var(b)}

\* C1: after sift_syms every symbol in the right-hand side of a kept entry
\* (the alternatives of a tuple included) is in the returned list or in
\* known_symbols.
C1_SiftComplete ==
  call.op = "sift_syms" =>
    \A i \in 1..Len(ret.val) :
      ret.val[i] \in DOMAIN sydi =>
        \A b \in ValAtoms(sydi[ret.val[i]]) :
          InList(ret.val, Var(b)) \/ b \in call.wr_syms

\* C2: in the list sift_syms returns, a kept entry comes after every
\* returned symbol that occurs in its right-hand side.
C2_ValidOrder ==
  call.op = "sift_syms" =>
    \A i \in 1..Len(ret.val), j \in 1..Len(ret.val) :
      (ret.val[i] \in DOMAIN sydi
         /\ \E b \in ValAtoms(sydi[ret.val[i]]) : ret.val[j] = Var(b)) => j < i

IsSimple(e) == IsAtom(e) \/ IsAtom(Neg(e))

\* e or -e is the right-hand side of an entry of d.
Registered(d, e) ==
  \E k \in DOMAIN d.sydi : d.sydi[k] = Val(e) \/ d.sydi[k] = Val(Neg(e))

\* r is the key of an entry of d for e, or minus the key of an entry for -e.
ExistingFor(d, e, r) ==
  \/ r \in DOMAIN d.sydi /\ d.sydi[r] = Val(e)
  \/ Neg(r) \in DOMAIN d.sydi /\ d.sydi[Neg(r)] = Val(Neg(e))

\* C3: replace on a registered expression that is not atomic
\* returns the existing symbol and adds nothing, whatever forced is.
C3_ReuseAnyForced ==
  (call.op = "replace" /\ ~IsSimple(call.old_sym) /\ Registered(pre, call.old_sym)) =>
    (ExistingFor(pre, call.old_sym, ret.val) /\ D = pre)

\* No two keys of d have the same value or values that are negations of
\* each other.
NoDuplicate(d) ==
  \A k1 \in DOMAIN d.sydi, k2 \in DOMAIN d.sydi :
    k1 # k2 =>
      /\ d.sydi[k1] # d.sydi[k2]
      /\ ~(~d.sydi[k1].tup /\ ~d.sydi[k2].tup
             /\ d.sydi[k1].alts[1] = Neg(d.sydi[k2].alts[1]))

\* C4: after any sequence of calls no two keys have equal or
\* opposite values.
C4_NoDuplicateEver == NoDuplicate(D)

\* The keys reachable from the right-hand side of k in at most n steps.
RECURSIVE ReachFrom(_, _, _)
ReachFrom(d, S, n) ==
  IF n = 0 THEN S
  ELSE ReachFrom(d, S \cup UNION {Deps(d, j) : j \in S}, n - 1)

Acyclic(d) ==
  \A k \in DOMAIN d.sydi : k \notin ReachFrom(d, Deps(d, k), Len(d.order_list))

\* C5: no key of the dictionary is reachable from its own right-hand side.
C5_Acyclic == Acyclic(D)

IsSquare(M) == Rows(M) = Cols(M)

\* The keys mat_replace can create for the cells on and above the diagonal.
UpperKeys(M, name, index) ==
  {Var(name \o DigitStr(i) \o DigitStr(j) \o index) :
      <<i, j>> \in {<<a, b>> \in (1..Rows(M)) \X (1..Cols(M)) : a <= b}}

\* C6 as stated: after a symmetric mat_replace of a square matrix every
\* cell below the diagonal holds what its mirror holds and no entry was
\* created for such a cell, whatever skip and forced are.
C6_SymmetricAnySkip ==
  (call.op = "mat_replace" /\ call.symmet /\ IsSquare(call.M)) =>
    /\ \A i \in 1..Rows(call.M), j \in 1..Cols(call.M) :
         j < i => ret.val[i][j] = ret.val[j][i]
    /\ DOMAIN sydi \ DOMAIN pre.sydi \subseteq UpperKeys(call.M, call.name, call.index)

\* C6: after a symmetric mat_replace of a square matrix the cells below the diagonal in the rows that are not
\* skipped hold what their mirrors hold, the skipped rows are as they
\* were, and no entry was created for a cell below the diagonal.
C6_SymmetricUnskipped ==
  (call.op = "mat_replace" /\ call.symmet /\ IsSquare(call.M)) =>
    /\ \A i \in 1..(Rows(call.M) - call.skip), j \in 1..Cols(call.M) :
         j < i => ret.val[i][j] = ret.val[j][i]
    /\ \A i \in 1..Rows(call.M) : i > Rows(call.M) - call.skip => ret.val[i] = call.M[i]
    /\ DOMAIN sydi \ DOMAIN pre.sydi \subseteq UpperKeys(call.M, call.name, call.index)

\* A symmetric mat_replace that put a new symbol in a cell above the
\* diagonal and the same symbol in its mirror.
C6_Witness ==
  /\ call.op = "mat_replace" /\ call.symmet /\ IsSquare(call.M) /\ call.skip = 0
  /\ ret.val[1][2] \in DOMAIN sydi \ DOMAIN pre.sydi
  /\ ret.val[2][1] = ret.val[1][2]
  /\ call.M[2][1] # call.M[1][2]


-----------------------------------------------------------------------------
(* The rewriters, under SpecSimp.                                          *)

IsRewrite == call.op \in {"try_opt", "C2S2_simp", "CS12_simp"}

\* The expression the rewriter was called with.
CallSym == IF call.op = "try_opt" THEN call.old_sym ELSE call.sym

\* C7: after every call of try_opt, either the value returned is old_sym
\* and sydi, revdi and order_list are as before the call, or the value
\* returned has a strictly smaller operation count than old_sym.
C7_TryOptLowers ==
  call.op = "try_opt" =>
    \/ ret.val = call.old_sym /\ D = pre
    \/ CountOps(ret.val) < CountOps(call.old_sym)

\* try_opt has accepted a rewrite and registered its symbol.
C7_Witness ==
  /\ call.op = "try_opt"
  /\ ret.val # call.old_sym
  /\ D # pre
  /\ CountOps(ret.val) < CountOps(call.old_sym)

\* C8: a rewriter called on what the same rewriter has just returned
\* returns it unchanged and leaves the dictionary as it was.
C8_Idempotent ==
  (IsRewrite /\ call.again) =>
    /\ ~ret.exc
    /\ ret.val = CallSym
    /\ D = pre

\* The number of terms that qualify for B + C, and for B - C.
NumSum == Cardinality(try_coefs(call.pat.B, call.pat.C, call.old_sym))
NumDiff == Cardinality(try_coefs_n(call.pat.B, call.pat.C, call.old_sym))

\* The candidates of the sum form (A, B + C) and of the difference form
\* (Am, B - C).
SumCand ==
  try_res(call.pat.A, call.pat.B, call.pat.C,
          try_coefs(call.pat.B, call.pat.C, call.old_sym), call.old_sym)
DiffCand ==
  try_res(call.pat.Am[1], call.pat.B, Neg(call.pat.C),
          try_coefs_n(call.pat.B, call.pat.C, call.old_sym), call.old_sym)

\* try_opt was called with Am.
WithAm == call.op = "try_opt" /\ call.pat.Am # <<>>

\* The value returned is the candidate of the difference form.
DiffChosen ==
  /\ ret.val # call.old_sym
  /\ ret.val = DiffCand
  /\ ret.val # SumCand

PythPair(e, n) ==
  LET CS == CS_syms(n)
  IN  (Times(CS[1], CS[1]) \cup Times(CS[2], CS[2])) \subseteq e

\* The names n of the angles of e with the pair S_n**2 + C_n**2 in e.
PythNames(e) == {n \in trigonometric_info(e).names : PythPair(e, n)}

\* C10: after C2S2_simp on a sum with the pair S_n**2 + C_n**2 for several
\* names n, the value returned holds none of these pairs.
C10_CollapseEvery ==
  (call.op = "C2S2_simp" /\ ~ret.exc /\ Cardinality(PythNames(call.sym)) >= 2) =>
    PythNames(ret.val) = {}

-----------------------------------------------------------------------------
(* Two instances that differ in the output descriptor only and are given   *)
(* the same calls: the instance of the state machine and twin.             *)

TwinD == [sydi |-> twin.sydi, revdi |-> twin.revdi, order_list |-> twin.order_list]

InitSink ==
  /\ sydi = <<>>
  /\ revdi = <<>>
  /\ order_list = <<>>
  /\ pre = EmptyDict
  /\ call = NoCall
  /\ ret = [exc |-> FALSE, val |-> ZERO]
  /\ file_out \in Sinks
  /\ output = <<>>
  /\ pre_output = <<>>
  /\ \E fo \in Sinks \ {file_out} :
       twin = [op |-> "twin", sydi |-> <<>>, revdi |-> <<>>, order_list |-> <<>>,
               ret |-> [exc |-> FALSE, val |-> ZERO], file_out |-> fo, output |-> <<>>]

\* The instance becomes d and twin dt, with what twin's call returned.
BecomesBoth(d, dt, rett) ==
  /\ Len(d.order_list) <= MaxEntries
  /\ Len(dt.order_list) <= MaxEntries
  /\ sydi' = d.sydi
  /\ revdi' = d.revdi
  /\ order_list' = d.order_list
  /\ pre' = D
  /\ output' = write_equations(file_out, output, D, d)
  /\ pre_output' = output
  /\ twin' = [twin EXCEPT !.sydi = dt.sydi, !.revdi = dt.revdi,
                          !.order_list = dt.order_list, !.ret = rett,
                          !.output = write_equations(twin.file_out, twin.output, TwinD, dt)]
  /\ UNCHANGED file_out

SinkExprPool == {EXY, Neg(EXY), x}

SinkMatPool == { <<<<EXY, EB>>, <<EB, x>>>> }

SinkAddToDict ==
  /\ call = NoCall
  /\ \E new_sym \in NewSymPool, old_sym \in ValPool :
       \E r \in {add_to_dict(D, new_sym, old_sym)},
          rt \in {add_to_dict(TwinD, new_sym, old_sym)} :
         /\ BecomesBoth(r.d, rt.d, [exc |-> rt.exc, val |-> ZERO])
         /\ call' = [op |-> "add_to_dict", new_sym |-> new_sym, old_sym |-> old_sym]
         /\ ret' = [exc |-> r.exc, val |-> ZERO]

SinkReplace ==
  /\ call = NoCall
  /\ \E old_sym \in SinkExprPool, name \in NamePool, forced \in BOOLEAN :
       \E r \in {replace(D, old_sym, name, <<"1">>, forced)},
          rt \in {replace(TwinD, old_sym, name, <<"1">>, forced)} :
         /\ BecomesBoth(r.d, rt.d, [exc |-> FALSE, val |-> rt.res])
         /\ call' = [op |-> "replace", old_sym |-> old_sym, name |-> name,
                     index |-> <<"1">>, forced |-> forced]
         /\ ret' = [exc |-> FALSE, val |-> r.res]

SinkMatReplace ==
  /\ call = NoCall
  /\ \E M \in SinkMatPool, forced \in BOOLEAN, symmet \in BOOLEAN :
       \E r \in {mat_replace(D, M, <<"M">>, <<>>, forced, 0, symmet)},
          rt \in {mat_replace(TwinD, M, <<"M">>, <<>>, forced, 0, symmet)} :
         /\ BecomesBoth(r.d, rt.d, [exc |-> rt.exc, val |-> rt.M])
         /\ call' = [op |-> "mat_replace", M |-> M, name |-> <<"M">>, index |-> <<>>,
                     forced |-> forced, skip |-> 0, symmet |-> symmet]
         /\ ret' = [exc |-> r.exc, val |-> r.M]

SinkTrigReplace ==
  /\ call = NoCall
  /\ \E M \in TrigMatPool, angle \in AnglePool, name \in TrigNamePool :
       \E r \in {trig_replace(D, M, angle, name)},
          rt \in {trig_replace(TwinD, M, angle, name)} :
         /\ BecomesBoth(r.d, rt.d, [exc |-> FALSE, val |-> rt.M])
         /\ call' = [op |-> "trig_replace", M |-> M, angle |-> angle, name |-> name]
         /\ ret' = [exc |-> FALSE, val |-> r.M]

SinkTryOpt ==
  /\ call = NoCall
  /\ \E pat \in {PatS12, PatC2S2}, old_sym \in {ESum12, EPyth} :
       \E r \in {try_opt(D, pat.A, pat.Am, pat.B, pat.C, old_sym)},
          rt \in {try_opt(TwinD, pat.A, pat.Am, pat.B, pat.C, old_sym)} :
         /\ BecomesBoth(r.d, rt.d, [exc |-> FALSE, val |-> rt.res])
         /\ call' = [op |-> "try_opt", pat |-> pat, old_sym |-> old_sym, again |-> FALSE]
         /\ ret' = [exc |-> FALSE, val |-> r.res]

\* The order of a Python set is a function of what was put in it and in
\* which order, so two sets with the same history are listed alike.
SinkSiftSyms ==
  /\ call = NoCall
  /\ \E rq_syms \in RqPool, wr_syms \in WrPool :
       \E r \in {sift_syms(D, rq_syms, wr_syms)},
          rt \in {sift_syms(TwinD, rq_syms, wr_syms)} :
         \E rq_vals \in Orders(r.rq_vals), rq_vals_t \in Orders(rt.rq_vals) :
           /\ rt.rq_vals = r.rq_vals => rq_vals_t = rq_vals
           /\ BecomesBoth(D, TwinD,
                [exc |-> FALSE,
                 val |-> [i \in 1..Len(rq_vals_t) |-> Var(rq_vals_t[i])] \o rt.order_list])
           /\ call' = [op |-> "sift_syms", rq_syms |-> rq_syms, wr_syms |-> wr_syms]
           /\ ret' = [exc |-> FALSE,
                      val |-> [i \in 1..Len(rq_vals) |-> Var(rq_vals[i])] \o r.order_list]

NextSink ==
  \/ SinkAddToDict
  \/ SinkReplace
  \/ SinkMatReplace
  \/ SinkTrigReplace
  \/ SinkTryOpt
  \/ SinkSiftSyms
  \/ Continue

SpecSink == InitSink /\ [][NextSink]_vars

-----------------------------------------------------------------------------
(* The composition of angle names on its own: reduce_str on two strings of *)
(* indices, and the two names CS12_simp composes of a pair of names.       *)

StrPool == { <<>>, <<"1">>, <<"2">>, <<"3">>, <<"1", "2">>, <<"2", "3">>,
             <<"2", "1">>, <<"2", "2">>, <<"1", "2", "3">> }

AngNamePool == { <<"1">>, <<"2">>, <<"m", "2">>, <<"1", "2">>, <<"2", "3">>,
                 <<"1", "m", "2">>, <<"1", "m", "2", "3">>, <<"2", "m", "1">> }

ReduceStr ==
  /\ call = NoCall
  /\ \E s1 \in StrPool, s2 \in StrPool :
       /\ Becomes(D)
       /\ call' = [op |-> "reduce_str", s1 |-> s1, s2 |-> s2]
       /\ ret' = [exc |-> FALSE, val |-> reduce_str(s1, s2)]

\* n12 and nm12 as CS12_simp composes them of the names n1 and n2.
AngSum ==
  /\ call = NoCall
  /\ \E n1 \in AngNamePool, n2 \in AngNamePool :
       \E p1 \in {get_pos_neg(n1)}, p2 \in {get_pos_neg(n2)} :
         /\ Becomes(D)
         /\ call' = [op |-> "ang_sum", n1 |-> n1, n2 |-> n2]
         /\ ret' = [exc |-> FALSE,
                    val |-> <<ang_sum(p1[1], p2[1], p1[2], p2[2]),
                              ang_sum(p1[1], p2[2], p1[2], p2[1])>>]

NextNames ==
  \/ ReduceStr
  \/ AngSum
  \/ Continue

SpecNames == Init /\ [][NextNames]_vars

-----------------------------------------------------------------------------
(* Coefficient extraction on its own: get_max_coef_mul on one additive     *)
(* term and one pattern, as try_opt calls it through get_max_coef_list.    *)

\* The products the terms are made of, and the numeric factors they carry.
CoefMonoPool == {x, Times(x, y), Times(S1, C2), Times(C1, S2), Times(S1, S1),
                 T3(x, S1, C2), T3(y, C1, S2)}

CoefNumPool == {1, -1, 2, -2}

CoefTermPool == {Times(Num(n), m) : n \in CoefNumPool, m \in CoefMonoPool}

\* The patterns: the B and C of the try_opt calls, and plain symbols.
CoefPatPool == {x, y, Times(S1, C2), Times(C1, S2), Neg(Times(S1, S2)),
                Times(S1, S1), Neg(Times(S1, C2))}

GetMaxCoefMul ==
  /\ call = NoCall
  /\ \E sym \in CoefTermPool, pat \in CoefPatPool :
       /\ Becomes(D)
       /\ call' = [op |-> "get_max_coef_mul", sym |-> sym, x |-> pat]
       /\ ret' = [exc |-> FALSE, val |-> get_max_coef_mul(sym, pat)]

NextCoef ==
  \/ GetMaxCoefMul
  \/ Continue

SpecCoef == Init /\ [][NextCoef]_vars

-----------------------------------------------------------------------------
(* The routine that gen_func makes of a body with exec: the statements of  *)
(* the body are Python statements, and a statement belongs to the for      *)
(* statement before it for as long as the indentation stays larger.        *)

\* The position after the block of the statement at i: the first later
\* statement that is indented no more than it.
BlockEnd(body, i) ==
  IF \E j \in (i + 1)..Len(body) : body[j].ind <= body[i].ind
  THEN CHOOSE j \in (i + 1)..Len(body) :
         /\ body[j].ind <= body[i].ind
         /\ \A n \in (i + 1)..(j - 1) : body[n].ind > body[i].ind
  ELSE Len(body) + 1

NoResult == [k |-> "unset", items |-> <<>>]

\* The statements i..stop-1 of body run with the loop variables chosen as
\* in ch (the list of <<variable, number of the alternative>> of the for
\* statements around) and name_result as in acc: unset, a list (items, one
\* for each append, each the ch it was appended under) or a single value.
RECURSIVE Exec(_, _, _, _, _)
RECURSIVE ForAlts(_, _, _, _, _, _)
Exec(body, i, stop, ch, acc) ==
  IF i >= stop \/ acc.k = "error" THEN acc
  ELSE IF body[i].k = "for"
       THEN Exec(body, Min(BlockEnd(body, i), stop), stop, ch,
                 ForAlts(body, i, Min(BlockEnd(body, i), stop), ch, acc, 1))
  ELSE IF body[i].k = "init"
       THEN Exec(body, i + 1, stop, ch, [k |-> "list", items |-> <<>>])
  ELSE IF body[i].k = "append"
       THEN Exec(body, i + 1, stop, ch,
                 IF acc.k = "list" THEN [k |-> "list", items |-> Append(acc.items, ch)]
                 ELSE [k |-> "error", items |-> <<>>])
  ELSE IF body[i].k = "result"
       THEN Exec(body, i + 1, stop, ch, [k |-> "single", items |-> <<ch>>])
  ELSE Exec(body, i + 1, stop, ch, acc)

\* The for statement at i, whose block ends before e, from its alternative
\* a on.  A for statement with no statement in its block is no Python.
ForAlts(body, i, e, ch, acc, a) ==
  IF e = i + 1 THEN [k |-> "error", items |-> <<>>]
  ELSE IF a > Len(body[i].v.alts) THEN acc
  ELSE ForAlts(body, i, e, ch,
               Exec(body, i + 1, e, Append(ch, <<body[i].s, a>>), acc), a + 1)

\* What the routine returns: name_result when the return statement is
\* reached.
Routine(body) == Exec(body, 1, Len(body), <<>>, NoResult)

\* The positions of the for statements of a body, and the branching keys
\* of a list of symbols.
ForStmts(body) == {i \in 1..Len(body) : body[i].k = "for"}

Branching(d, order) ==
  {i \in 1..Len(order) : order[i] \in DOMAIN d.sydi /\ d.sydi[order[i]].tup}

\* The number of combinations of alternatives of the branching keys of
\* order from position i on.
RECURSIVE Combos(_, _, _)
Combos(d, order, i) ==
  IF i > Len(order) THEN 1
  ELSE IF i \in Branching(d, order)
       THEN Len(d.sydi[order[i]].alts) * Combos(d, order, i + 1)
  ELSE Combos(d, order, i + 1)

\* C11: gen_fbody makes one for statement for each branching entry of the
\* sifted order, in that order; every statement after a for statement
\* except the final return is indented more than it; with a branching
\* entry the routine returns a list with one result for each combination
\* of alternatives, no two for the same combination; with none it returns
\* a single value and the body has no list and no append.
C11_Inv(d, order, body) ==
  /\ Cardinality(ForStmts(body)) = Cardinality(Branching(d, order))
  /\ \A i \in Branching(d, order) :
       \E j \in ForStmts(body) : body[j].s = order[i] /\ body[j].v = d.sydi[order[i]]
  /\ \A i \in ForStmts(body) : \A j \in (i + 1)..(Len(body) - 1) :
       body[j].ind > body[i].ind
  /\ body[Len(body)].k = "return"
  /\ IF Branching(d, order) # {}
     THEN /\ Routine(body).k = "list"
          /\ Len(Routine(body).items) = Combos(d, order, 1)
          /\ \A m, n \in 1..Len(Routine(body).items) :
               Routine(body).items[m] = Routine(body).items[n] => m = n
          /\ \A m \in 1..Len(Routine(body).items) :
               Len(Routine(body).items[m]) = Cardinality(Branching(d, order))
     ELSE /\ Routine(body).k = "single"
          /\ \A j \in 1..Len(body) : body[j].k \notin {"init", "append", "for"}

C11_BranchEnumeration ==
  (call.op = "gen_fbody" /\ ~ret.exc) => C11_Inv(D, call.order, ret.val)

\* gen_fbody has made a body for two branching entries, of two and of
\* three alternatives, and the routine returns six results.
C11_Witness ==
  /\ call.op = "gen_fbody"
  /\ Cardinality(Branching(D, call.order)) = 2
  /\ Combos(D, call.order, 1) = 6
  /\ Len(Routine(ret.val).items) = 6

\* The keys of a returned list, in its order, and what comes before them.
KeptOf(d, list) == SelectSeq(list, LAMBDA e : e \in DOMAIN d.sydi)

FirstOf(d, list) == SelectSeq(list, LAMBDA e : e \notin DOMAIN d.sydi)

\* The symbols required: those asked for and those in the right-hand side
\* of a kept entry (every alternative of a branching one).
Required(d, rq_syms, list) ==
  rq_syms \cup UNION {ValAtoms(d.sydi[list[i]]) :
                        i \in {n \in 1..Len(list) : list[n] \in DOMAIN d.sydi}}

\* The required symbols that are no key and not known.
Unresolved(d, rq_syms, wr_syms, list) ==
  {Var(b) : b \in {a \in Required(d, rq_syms, list) :
                     Var(a) \notin DOMAIN d.sydi /\ a \notin wr_syms}}

\* C12: sift_syms returns first exactly the required symbols that are
\* neither keys nor known, then the kept keys in insertion order; gen_fbody
\* emits s=1. for exactly the symbols of the first group.
C12_SiftShape ==
  /\ call.op = "sift_syms" =>
       /\ ret.val = FirstOf(D, ret.val) \o KeptOf(D, ret.val)
       /\ {ret.val[i] : i \in 1..Len(FirstOf(D, ret.val))}
            = Unresolved(D, call.rq_syms, call.wr_syms, ret.val)
       /\ Len(FirstOf(D, ret.val))
            = Cardinality(Unresolved(D, call.rq_syms, call.wr_syms, ret.val))
       /\ KeptOf(D, ret.val)
            = SelectSeq(order_list, LAMBDA e : InList(ret.val, e))
  /\ call.op = "gen_fbody" =>
       {ret.val[j].s : j \in {n \in 1..Len(ret.val) : ret.val[n].k = "default"}}
         = Unresolved(D, extract_syms(call.to_return), call.wr_syms, call.order)

\* new_sym after the sign canonicalisation of add_to_dict.
CanonKey(new_sym) == IF AsCoeff(new_sym) = -1 THEN Neg(new_sym) ELSE new_sym

\* C13: add_to_dict with a new_sym that, after sign canonicalisation, is
\* already a key leaves sydi, revdi and order_list as they were, sends no
\* line to the output and raises no error, whatever old_sym is.
C13_DuplicateNoOp ==
  (call.op = "add_to_dict" /\ CanonKey(call.new_sym) \in DOMAIN pre.sydi) =>
    /\ D = pre
    /\ output = pre_output
    /\ ~ret.exc

\* A right-hand side all of whose terms are negative: its leading
\* coefficient is negative in whatever order the terms are taken.
AllNegative(e) == e # {} /\ \A t \in e : t.c < 0

Count(str, ch) == Cardinality({i \in 1..Len(str) : str[i] = ch})

Chars(str) == {str[i] : i \in 1..Len(str)}

\* C15: reduce_str removes from both strings the same characters, each as
\* many times as it is in both, so the results share no character; the
\* name composed is the positive part, then 'm' and the negative part when
\* there is one, with no index in both parts; "1" and "m2" give "1m2", "1"
\* and "2" give "12", "12" and "m2" give "1", "1m23" and "23" give "1".
C15_ReduceCancels ==
  /\ call.op = "reduce_str" =>
       /\ \A ch \in Chars(call.s1) \cup Chars(call.s2) :
            /\ Count(call.s1, ch) - Count(ret.val[1], ch)
                 = Min(Count(call.s1, ch), Count(call.s2, ch))
            /\ Count(call.s2, ch) - Count(ret.val[2], ch)
                 = Min(Count(call.s1, ch), Count(call.s2, ch))
       /\ Chars(ret.val[1]) \cap Chars(ret.val[2]) = {}
  /\ call.op = "ang_sum" =>
       /\ Chars(get_pos_neg(ret.val[1])[1]) \cap Chars(get_pos_neg(ret.val[1])[2]) = {}
       /\ (call.n1 = <<"1">> /\ call.n2 = <<"m", "2">>) => ret.val[1] = <<"1", "m", "2">>
       /\ (call.n1 = <<"1">> /\ call.n2 = <<"2">>) => ret.val[1] = <<"1", "2">>
       /\ (call.n1 = <<"1", "2">> /\ call.n2 = <<"m", "2">>) => ret.val[1] = <<"1">>
       /\ (call.n1 = <<"1", "m", "2", "3">> /\ call.n2 = <<"2", "3">>) => ret.val[1] = <<"1">>

\* C16: for every common coefficient k, CS12_simp on an empty dictionary
\* and k*S1*C2 + k*C1*S2 returns k*S12 and leaves the dictionary with the
\* one entry S12 = S1*C2 + C1*S2.
C16_SumCollapse ==
  \A k \in KPool :
    (call.op = "CS12_simp" /\ pre = EmptyDict /\ call.sym = Times(k, ESum12)) =>
      /\ ~ret.exc
      /\ ret.val = Times(k, S12)
      /\ sydi = (S12 :> Val(ESum12))
      /\ order_list = <<S12>>

\* C17: a try_opt whose replacement is a number (A a number, no Am) leaves
\* the dictionary and the output as they were, and so does every
\* C2S2_simp; C2S2_simp of S1**2 + C1**2 and of sin(x)**2 + cos(x)**2
\* returns 1.
C17_NumericNotRegistered ==
  /\ (call.op = "try_opt" /\ IsNumber(call.pat.A) /\ call.pat.Am = <<>>) =>
       D = pre /\ output = pre_output
  /\ call.op = "C2S2_simp" =>
       D = pre /\ output = pre_output
  /\ (call.op = "C2S2_simp" /\ call.sym \in {EPyth, EPythLong}) =>
       ~ret.exc /\ ret.val = ONE

\* C2S2_simp(sin(x)**2 + cos(x)**2) has returned 1 and the dictionary,
\* empty before, is empty.
C17_Witness ==
  /\ call.op = "C2S2_simp"
  /\ call.sym = EPythLong
  /\ ret.val = ONE
  /\ pre = EmptyDict
  /\ D = EmptyDict

\* C18: two instances that differ in the output descriptor only and are
\* given the same calls hold the same sydi, revdi and order_list and have
\* returned the same from the last call; an output that is not None has
\* received one line for each entry of the dictionary, in the order of
\* insertion, and None has received nothing.
LinesOf(fo, o, d) ==
  IF fo = "None" THEN o = <<>>
  ELSE o = [i \in 1..Len(d.order_list) |->
              write_equation(d.order_list[i], d.sydi[d.order_list[i]])]

IsPrefix(l1, l2) == Len(l1) <= Len(l2) /\ SubSeq(l2, 1, Len(l1)) = l1

\* C19: every call leaves order_list as it was with keys appended, with no
\* key twice and with the keys of sydi as its elements; every entry there
\* was is still there with the same right-hand side; sift_syms, gen_fbody
\* and unfold leave sydi, revdi and order_list as they were.
C19_AppendOnly ==
  /\ IsPrefix(pre.order_list, order_list)
  /\ \A i, j \in 1..Len(order_list) : order_list[i] = order_list[j] => i = j
  /\ {order_list[i] : i \in 1..Len(order_list)} = DOMAIN sydi
  /\ \A k \in DOMAIN pre.sydi : k \in DOMAIN sydi /\ sydi[k] = pre.sydi[k]
  /\ call.op \in {"sift_syms", "gen_fbody", "unfold"} => D = pre

\* add_to_dict has been called with a key that was there and another
\* right-hand side, and the dictionary of two entries is as it was.
C19_Witness ==
  /\ call.op = "add_to_dict"
  /\ ~ret.exc
  /\ ~call.old_sym.tup
  /\ CanonKey(call.new_sym) \in DOMAIN pre.sydi
  /\ pre.sydi[CanonKey(call.new_sym)]
       # (IF AsCoeff(call.new_sym) = -1 THEN Val(Neg(call.old_sym.alts[1])) ELSE call.old_sym)
  /\ Len(pre.order_list) = 2
  /\ D = pre

\* C20: unfold(expr) returns, and returns an expression none of whose
\* symbols is a key of the dictionary.
C20_UnfoldExpands ==
  call.op = "unfold" =>
    /\ ~ret.exc
    /\ \A b \in Atoms(ret.val) : Var(b) \notin DOMAIN sydi

\* The pattern x divides the term t: every base of x is in t with at least
\* its exponent.
Divides(pat, sym) ==
  \A xt \in pat, t \in sym : \A b \in DOMAIN xt.m : MExp(t.m, b) >= xt.m[b]

\* C21: get_max_coef_mul(t, x) is 0 when x does not divide t and otherwise
\* a coefficient c with c*x = t, sign included; the coefficient of x in
\* -x*y is -y.
C21_CoefExact ==
  call.op = "get_max_coef_mul" =>
    /\ ~Divides(call.x, call.sym) => ret.val = ZERO
    /\ Divides(call.x, call.sym) => Times(ret.val, call.x) = call.sym
    /\ (call.sym = Neg(Times(x, y)) /\ call.x = x) => ret.val = Neg(y)

\* C22: whenever replace returns a value other than old_sym, the value is
\* the key of an entry whose right-hand side is old_sym, or minus the key
\* of an entry whose right-hand side is -old_sym, also when name + index
\* was a key before the call.
C22_ReplaceDenotes ==
  (call.op = "replace" /\ ret.val # call.old_sym) =>
    ExistingFor(D, call.old_sym, ret.val)

\* The symbols needed to compute those of S when those of wr_syms are
\* known: S and, n times over, the symbols of the right-hand sides of the
\* needed keys that are not known.
RECURSIVE NeededFrom(_, _, _, _)
NeededFrom(d, S, wr_syms, n) ==
  IF n = 0 THEN S
  ELSE NeededFrom(d,
         S \cup UNION {ValAtoms(d.sydi[Var(b)]) :
                         b \in {a \in S : Var(a) \in DOMAIN d.sydi /\ a \notin wr_syms}},
         wr_syms, n - 1)

\* No symbol of wr_syms is in list, and list holds needed symbols only.
NoKnown(d, rq_syms, wr_syms, list) ==
  /\ \A i \in 1..Len(list) : \A b \in wr_syms : list[i] # Var(b)
  /\ \A i \in 1..Len(list) :
       \E b \in NeededFrom(d, rq_syms, wr_syms, Len(d.order_list)) : list[i] = Var(b)

\* C23: a symbol of known_symbols is never in the list sift_syms returns,
\* a key of the dictionary or not, nor is an entry needed only to compute
\* it; the body gen_fbody makes assigns to no symbol of known_symbols.
C23_KnownNotOverwritten ==
  /\ call.op = "sift_syms" => NoKnown(D, call.rq_syms, call.wr_syms, ret.val)
  /\ call.op = "gen_fbody" =>
       /\ NoKnown(D, extract_syms(call.to_return), call.wr_syms, call.order)
       /\ \A j \in 1..Len(ret.val) :
            ret.val[j].k \in {"default", "for", "assign"} =>
              \A b \in call.wr_syms : ret.val[j].s # Var(b)

\* C24: C2S2_simp of a sum in which no angle name is present returns the
\* sum as it is, leaves the dictionary as it was and raises no error.
C24_NoPairNoOp ==
  (call.op = "C2S2_simp" /\ IsAdd(call.sym) /\ trigonometric_info(call.sym).names = {}) =>
    /\ ~ret.exc
    /\ ret.val = call.sym
    /\ D = pre

=============================================================================
